---- MODULE Spec2Model ----
(***************************************************************************)
(* voice-app-launcher: VoiceAppLauncherEngine.run() of engine.py as a      *)
(* state machine.  One engine, its configuration, the audio handle and     *)
(* stream, the wakeword model's prediction buffer, the per-label cooldown  *)
(* timestamps and the command dispatch, one action per step of run().      *)
(*                                                                         *)
(* Spec follows one run() step by step; ApiSpec adds stop() and            *)
(* reload_config() called from another thread.  SupSpec is run_service()   *)
(* of main.py with its signal handlers and worker threads, FairSupSpec the *)
(* same under fair scheduling of the threads.                              *)
(*                                                                         *)
(* Time is the monotonic clock in whole ticks.  Scores and the sensitivity *)
(* are integers on one scale (score 2 against sensitivity 2 is the         *)
(* "exactly equal" case).                                                  *)
(***************************************************************************)
EXTENDS Integers, Sequences, FiniteSets, TLC

(***************************************************************************)
(* Bounds of the model.                                                    *)
(***************************************************************************)
MaxClock == 7
MaxScore == 3
MaxJitter == 1
MaxFails == 2

(***************************************************************************)
(* Program constant: engine.py line 97 starts every label at 0.0.          *)
(***************************************************************************)
InitialLastHit == 0

Labels == {"wake_a", "wake_b"}
\* The iteration order of m.prediction_buffer.keys().
LabelOrder == <<"wake_a", "wake_b">>
NLabels == Len(LabelOrder)

(***************************************************************************)
(* Command strings of the wakewords mapping and what the dispatcher's      *)
(* library calls do with them.                                             *)
(***************************************************************************)

\* shlex.split raises ValueError("No closing quotation").
Untokenizable(cmd) == cmd = "echo 'hi"

\* shlex.split(cmd) for the strings that tokenize.
ShlexSplit(cmd) ==
    CASE cmd = "" -> <<>>
      [] cmd = "   " -> <<>>
      [] cmd = "nosuch --x" -> <<"nosuch", "--x">>
      [] cmd = "/opt/noperm" -> <<"/opt/noperm">>
      [] cmd = "echo hi" -> <<"echo", "hi">>
      [] OTHER -> <<>>

\* Path(exec_path).exists(): the files of the host.
PathExists(exec_path) == exec_path \in {"/opt/noperm"}

\* shutil.which(exec_path): the executables on the search path.
Which(exec_path) == exec_path \in {"echo"}

\* subprocess.Popen raises (permission denied) for a file that is not executable.
PopenRaises(exec_path) == exec_path \in {"/opt/noperm"}

\* The command lists of the configurations explored.
AllKinds == <<"", "   ", "nosuch --x", "/opt/noperm", "echo hi">>
BadQuote == <<"echo hi", "echo 'hi", "echo hi">>
FailingOnly == <<"nosuch --x", "/opt/noperm">>

(***************************************************************************)
(* Configurations.  missing: the keys absent from the document.            *)
(***************************************************************************)
NumericFields ==
    {"sensitivity", "launch_cooldown_secs", "chunk_size", "sample_rate", "channels"}

Cooldowns == 0..3
Periods == {1, 2}
ModelPathLists == { <<>>, <<"">>, <<"a.onnx", "", "b.onnx">> }

BaseConfig ==
    [ missing |-> {},
      sensitivity |-> 2,
      launch_cooldown_secs |-> 3,
      period |-> 1,
      model_paths |-> <<"a.onnx", "", "b.onnx">>,
      wakewords |-> [l \in Labels |-> <<"echo hi">>] ]

\* The configurations run against the synthetic always-detecting Detector:
\* every cooldown against every frame period.
SteadyConfigs ==
    { [BaseConfig EXCEPT !.launch_cooldown_secs = c, !.period = p]
        : c \in Cooldowns, p \in Periods }

\* The configurations run against arbitrary scores and failures.
FreeConfigs ==
    { BaseConfig,
      [BaseConfig EXCEPT !.sensitivity = 1, !.period = 2],
      [BaseConfig EXCEPT !.launch_cooldown_secs = 0],
      [BaseConfig EXCEPT !.launch_cooldown_secs = 2, !.period = 2],
      [BaseConfig EXCEPT !.wakewords = [l \in Labels |->
                              IF l = "wake_a" THEN AllKinds ELSE <<>>]],
      [BaseConfig EXCEPT !.wakewords = [l \in Labels |->
                              IF l = "wake_a" THEN BadQuote ELSE <<"echo hi">>]],
      [BaseConfig EXCEPT !.wakewords = [l \in Labels |->
                              IF l = "wake_a" THEN FailingOnly ELSE <<>>]] }

BrokenConfigs ==
    { [BaseConfig EXCEPT !.missing = {f}] : f \in NumericFields \cup {"model_paths"} }
    \cup { [BaseConfig EXCEPT !.model_paths = p] : p \in ModelPathLists }

Runs ==
    { <<"steady", c>> : c \in SteadyConfigs }
    \cup { <<"free", c>> : c \in FreeConfigs \cup BrokenConfigs }

\* Readings of the monotonic clock when run() is entered: below and at the
\* largest cooldown.
InitClocks == {0, 3}

VARIABLES
    config,                 \* self.config
    stop_event,             \* self.stop_event
    env,                    \* "free", or "steady": the synthetic always-detecting Detector
    pc,                     \* position in run()
    result,                 \* "running", "returned", "raised"
    raising,                \* an exception is propagating through the finally block
    sensitivity,            \* locals of run()
    launch_cooldown_secs,
    wakewords,
    period,                 \* chunk / sample_rate: the ticks one frame read takes
    pa,                     \* the PyAudio handle exists
    stream,                 \* "none" or "open"
    calls,                  \* release calls made on the stream and the handle, in order
    detector,               \* "none", "paths", "default"
    clock,                  \* time.monotonic()
    last_hit,
    li,                     \* index into LabelOrder of the label being checked
    ci,                     \* index into cmds of the command being dispatched
    spawned,                \* the argument lists handed to Popen in the current dispatch
    fires,                  \* per label, how many times it has fired
    first_frame,            \* <<>>, or <<clock at the first scored frame>>
    fails,                  \* consecutive failed iterations before the current frame
    ev,                     \* what the last step did
    running,                \* self._running
    resolved,               \* the configuration run() read its locals from
    once,                   \* run_service(once=...)
    sup,                    \* position in run_service()
    exit_code,              \* "none", the value run_service returned, or "exception"
    reload_event,           \* reload_event of run_service
    gen,                    \* engines constructed; stop_event, engine and worker of
                            \* run_service are bound to the objects numbered gen
    events,                 \* per engine, its threading.Event is set
    engine_running,         \* per engine, its _running
    workers,                \* per engine, the position of its worker thread
    term_seen,              \* a termination signal has been handled
    unserved,               \* a reload signal was handled after the last load began
    sighups                 \* reload signals handled

vars ==
    << config, stop_event, env, pc, result, raising, sensitivity,
       launch_cooldown_secs, wakewords, period, pa, stream, calls, detector, clock,
       last_hit, li, ci, spawned, fires, first_frame, fails, ev, running, resolved,
       once, sup, exit_code, reload_event, gen, events, engine_running, workers,
       term_seen, unserved, sighups >>

Event(kind, label) == [kind |-> kind, label |-> label, curr |-> <<>>]
Scored(kind, label, buf) == [kind |-> kind, label |-> label, curr |-> buf]

(***************************************************************************)
(* Pure helpers of the loop body.                                          *)
(***************************************************************************)
\* scores[-1] if scores else None, then `if not curr`: None and 0.0 are both falsy.
NoCurr(buf) == IF Len(buf) = 0 THEN TRUE ELSE buf[Len(buf)] = 0

Curr(buf) == buf[Len(buf)]

\* detected = curr > sensitivity
Detected(curr, sens) == curr > sens

\* A cooldown one tick short, and a cooldown counted from clock zero instead of
\* from the label's last fire.
InCooldownOffByOne(now, last, cooldown) == now - last < cooldown - 1

InCooldownIgnoresLast(now, last, cooldown) == now < cooldown

\* time_passed = time.monotonic() - last_hit.get(model, 0.0);
\* `if time_passed < launch_cooldown_secs: continue`
InCooldown(now, last, cooldown) == now - last < cooldown

\* resolved_paths = [str(Path(p).expanduser()) for p in model_paths if p]
ResolvedPaths(cfg) ==
    IF "model_paths" \in cfg.missing
    THEN <<>>
    ELSE SelectSeq(cfg.model_paths, LAMBDA p : p # "")

\* Path(exec_path).exists() or shutil.which(exec_path)
Resolves(exec_path) == PathExists(exec_path) \/ Which(exec_path)

ScoreBufs == {<<>>} \cup { <<s>> : s \in 0..MaxScore }

\* The engine is driven on its own: no run_service() around it.
ServiceDetached ==
    /\ once = FALSE
    /\ sup = "detached"
    /\ exit_code = <<>>
    /\ reload_event = FALSE
    /\ gen = 0
    /\ events = <<>>
    /\ engine_running = <<>>
    /\ workers = <<>>
    /\ term_seen = FALSE
    /\ unserved = FALSE
    /\ sighups = 0

\* The engine after __init__ and start(), when its thread enters run().
EngineCreated ==
    /\ stop_event = FALSE
    /\ running = TRUE
    /\ resolved = <<>>
    /\ pc = "config"
    /\ result = "running"
    /\ raising = FALSE
    /\ sensitivity = 0
    /\ launch_cooldown_secs = 0
    /\ wakewords = [l \in Labels |-> <<>>]
    /\ period = 0
    /\ pa = FALSE
    /\ stream = "none"
    /\ calls = <<>>
    /\ detector = "none"
    /\ last_hit = [l \in Labels |-> InitialLastHit]
    /\ li = 0
    /\ ci = 0
    /\ spawned = <<>>
    /\ fires = [l \in Labels |-> 0]
    /\ first_frame = <<>>
    /\ fails = 0
    /\ ev = Event("init", "-")

Init ==
    /\ \E r \in Runs : env = r[1] /\ config = r[2]
    /\ clock \in InitClocks
    /\ EngineCreated
    /\ ServiceDetached

locals == << sensitivity, launch_cooldown_secs, wakewords, period >>
audio == << pa, stream, calls >>
loopstate == << clock, last_hit, li, ci, spawned, fires, first_frame, fails >>
\* The variables of run_service() and its worker threads.
service ==
    << once, sup, exit_code, reload_event, gen, events, engine_running, workers,
       term_seen, unserved, sighups >>

(***************************************************************************)
(* run(), lines 29-38: the configuration is read into locals.  float(None) *)
(* and int(None) raise TypeError for an absent numeric field; nothing      *)
(* catches it, so it leaves run().                                         *)
(***************************************************************************)
ResolveConfig ==
    /\ pc = "config"
    /\ IF config.missing \cap NumericFields # {}
       THEN /\ pc' = "done"
            /\ result' = "raised"
            /\ ev' = Event("config_error", "-")
            /\ UNCHANGED << locals, resolved >>
       ELSE /\ resolved' = <<config>>
            /\ sensitivity' = config.sensitivity
            /\ launch_cooldown_secs' = config.launch_cooldown_secs
            /\ wakewords' = config.wakewords
            /\ period' = config.period
            /\ pc' = "open"
            /\ ev' = Event("config", "-")
            /\ UNCHANGED result
    /\ UNCHANGED << service, running, config, stop_event, env, raising, audio,
                    detector, loopstate >>

(***************************************************************************)
(* run(), lines 40-56: the handle is created and the stream opened.  When  *)
(* open raises, terminate() is called (its own failure swallowed) and run  *)
(* returns.                                                                *)
(***************************************************************************)
OpenAudioOk ==
    /\ pc = "open"
    /\ pa' = TRUE
    /\ stream' = "open"
    /\ pc' = "model"
    /\ ev' = Event("open", "-")
    /\ UNCHANGED << service, running, resolved, config, stop_event, env, result, raising, locals, calls,
                    detector, loopstate >>

OpenAudioFail ==
    /\ pc = "open"
    /\ env = "free"
    /\ pa' = TRUE
    /\ calls' = <<"terminate">>
    /\ pc' = "done"
    /\ result' = "returned"
    /\ ev' = Event("open_error", "-")
    /\ UNCHANGED << service, running, resolved, config, stop_event, env, raising, locals, stream,
                    detector, loopstate >>

(***************************************************************************)
(* run(), lines 58-74 and 97: the model is built from the resolved paths;  *)
(* with none, RuntimeError is raised instead of Model().  Either failure   *)
(* is caught: stream.close() and pa.terminate() run in one try block, so a *)
(* close() that raises skips terminate().                                  *)
(***************************************************************************)
ModelReleaseCalls(closeRaises) ==
    IF closeRaises THEN <<"close">> ELSE <<"close", "terminate">>

ConstructModelOk ==
    /\ pc = "model"
    /\ ResolvedPaths(config) # <<>>
    /\ detector' = "paths"
    /\ last_hit' = [l \in Labels |-> InitialLastHit]
    /\ pc' = "loop"
    /\ ev' = Event("model", "-")
    /\ UNCHANGED << service, running, resolved, config, stop_event, env, result, raising, locals, audio,
                    clock, li, ci, spawned, fires, first_frame, fails >>

ConstructModelFail ==
    /\ pc = "model"
    \* no resolved paths, or Model(wakeword_model_paths=...) raises
    /\ (ResolvedPaths(config) = <<>> \/ env = "free")
    /\ \E closeRaises \in BOOLEAN :
          calls' = ModelReleaseCalls(closeRaises)
    /\ pc' = "done"
    /\ result' = "returned"
    /\ ev' = Event("model_error", "-")
    /\ UNCHANGED << service, running, resolved, config, stop_event, env, raising, locals, pa, stream,
                    detector, loopstate >>

(***************************************************************************)
(* run(), line 106: `while not self.stop_event.is_set()`.                  *)
(***************************************************************************)
LoopCheck ==
    /\ pc = "loop"
    /\ pc' = IF stop_event THEN "finally" ELSE "read"
    /\ ev' = Event("check", "-")
    /\ UNCHANGED << service, running, resolved, config, stop_event, env, result, raising, locals, audio,
                    detector, loopstate >>

(***************************************************************************)
(* run(), lines 107-111: one blocking frame read; a failure is logged and  *)
(* the loop continues.                                                     *)
(***************************************************************************)
Jitter == IF env = "steady" THEN {0} ELSE 0..MaxJitter

Failed == IF fails < MaxFails THEN fails + 1 ELSE fails

\* A read failure that breaks out of the loop.
AfterReadBreaks == "finally"

\* `continue` (line 111)
AfterReadFail == "loop"

ReadFrameOk ==
    /\ pc = "read"
    /\ \E j \in Jitter :
          /\ clock + period + j <= MaxClock
          /\ clock' = clock + period + j
    /\ pc' = "predict"
    /\ ev' = Event("read", "-")
    /\ UNCHANGED << service, running, resolved, config, stop_event, env, result, raising, locals, audio,
                    detector, last_hit, li, ci, spawned, fires,
                    first_frame, fails >>

ReadFrameFail ==
    /\ pc = "read"
    /\ env = "free"
    /\ pc' = AfterReadFail
    /\ fails' = Failed
    /\ ev' = Event("read_error", "-")
    /\ UNCHANGED << service, running, resolved, config, stop_event, env, result, raising, locals, audio,
                    detector, clock, last_hit, li, ci, spawned, fires,
                    first_frame >>

(***************************************************************************)
(* run(), lines 113-119: the frame is scored; a failure is logged and the  *)
(* loop continues.                                                         *)
(***************************************************************************)
PredictOk ==
    /\ pc = "predict"
    /\ first_frame' = IF first_frame = <<>> THEN <<clock>> ELSE first_frame
    /\ li' = 1
    /\ pc' = "label"
    /\ ev' = Event("predict", "-")
    /\ UNCHANGED << service, running, resolved, config, stop_event, env, result, raising, locals, audio,
                    detector, clock, last_hit, ci, spawned, fires, fails >>

PredictFail ==
    /\ pc = "predict"
    /\ env = "free"
    /\ pc' = "loop"
    /\ fails' = Failed
    /\ ev' = Event("predict_error", "-")
    /\ UNCHANGED << service, running, resolved, config, stop_event, env, result, raising, locals, audio,
                    detector, clock, last_hit, li, ci, spawned, fires,
                    first_frame >>

(***************************************************************************)
(* The end of one label's turn in `for model in m.prediction_buffer.keys()`*)
(* : the next label, or back to the while condition.                       *)
(***************************************************************************)
NextLabel ==
    IF li < NLabels
    THEN /\ li' = li + 1
         /\ pc' = "label"
         /\ UNCHANGED fails
    ELSE /\ li' = 0
         /\ pc' = "loop"
         /\ fails' = 0

(***************************************************************************)
(* run(), lines 122-133: one label's latest score against the threshold    *)
(* and the cooldown.  buf is m.prediction_buffer[model] as the Detector    *)
(* left it for this frame.  The clock is read twice (lines 130 and 133);   *)
(* it may advance between the reads.                                       *)
(***************************************************************************)
LatestScores ==
    IF env = "steady" THEN { <<MaxScore>> } ELSE ScoreBufs

SkipNoScore(buf) ==
    /\ NoCurr(buf)
    /\ ev' = Scored("noscore", LabelOrder[li], buf)
    /\ NextLabel
    /\ UNCHANGED << clock, last_hit, ci, spawned, fires >>

SkipBelow(buf) ==
    /\ ~NoCurr(buf)
    /\ ~Detected(Curr(buf), sensitivity)
    /\ ev' = Scored("below", LabelOrder[li], buf)
    /\ NextLabel
    /\ UNCHANGED << clock, last_hit, ci, spawned, fires >>

SkipCooldown(buf) ==
    /\ ~NoCurr(buf)
    /\ Detected(Curr(buf), sensitivity)
    /\ InCooldown(clock, last_hit[LabelOrder[li]], launch_cooldown_secs)
    /\ ev' = Scored("cooldown", LabelOrder[li], buf)
    /\ NextLabel
    /\ UNCHANGED << clock, last_hit, ci, spawned, fires >>

\* One timestamp shared by every label.
MarkFiredAll(hits, label, now) == [l \in DOMAIN hits |-> now]

\* The timestamp left as it was when the label fires.
MarkFiredNever(hits, label, now) == hits

\* last_hit[model] = time.monotonic()
MarkFired(hits, label, now) == [hits EXCEPT ![label] = now]

Fire(buf) ==
    /\ ~NoCurr(buf)
    /\ Detected(Curr(buf), sensitivity)
    /\ ~InCooldown(clock, last_hit[LabelOrder[li]], launch_cooldown_secs)
    /\ \E d \in Jitter :
          /\ clock + d <= MaxClock
          /\ clock' = clock + d
          /\ last_hit' = MarkFired(last_hit, LabelOrder[li], clock + d)
    /\ fires' = [fires EXCEPT ![LabelOrder[li]] = @ + 1]
    /\ spawned' = <<>>
    /\ ev' = Scored("fire", LabelOrder[li], buf)
    /\ IF wakewords[LabelOrder[li]] = <<>>
       THEN /\ NextLabel
            /\ UNCHANGED ci
       ELSE /\ pc' = "cmd"
            /\ ci' = 1
            /\ UNCHANGED << li, fails >>

CheckLabel ==
    /\ pc = "label"
    /\ \E buf \in LatestScores :
          \/ SkipNoScore(buf)
          \/ SkipBelow(buf)
          \/ SkipCooldown(buf)
          \/ Fire(buf)
    /\ UNCHANGED << service, running, resolved, config, stop_event, env, result, raising, locals, audio,
                    detector, first_frame >>

(***************************************************************************)
(* run(), lines 139-152: one command of the fired label's list.            *)
(***************************************************************************)
CurrentCmd == wakewords[LabelOrder[li]][ci]

NextCmd ==
    IF ci < Len(wakewords[LabelOrder[li]])
    THEN /\ ci' = ci + 1
         /\ UNCHANGED << pc, li, fails >>
    ELSE /\ ci' = 0
         /\ NextLabel

\* `if not cmd: continue`, and `if not exec_with_args: continue`
CmdEmpty ==
    /\ pc = "cmd"
    /\ ~Untokenizable(CurrentCmd)
    /\ ShlexSplit(CurrentCmd) = <<>>
    /\ ev' = Event("cmd_empty", LabelOrder[li])
    /\ NextCmd
    /\ UNCHANGED << service, running, resolved, config, stop_event, env, result, raising, locals, audio,
                    detector, clock, last_hit, spawned, fires,
                    first_frame >>

\* shlex.split(cmd) raises outside any try of the loop body: the exception
\* leaves the while loop through the finally block.
CmdUntokenizable ==
    /\ pc = "cmd"
    /\ CurrentCmd # ""
    /\ Untokenizable(CurrentCmd)
    /\ raising' = TRUE
    /\ pc' = "finally"
    /\ ev' = Event("cmd_error", LabelOrder[li])
    /\ UNCHANGED << service, running, resolved, config, stop_event, env, result, locals, audio, detector,
                    loopstate >>

CmdNotFound ==
    /\ pc = "cmd"
    /\ ~Untokenizable(CurrentCmd)
    /\ ShlexSplit(CurrentCmd) # <<>>
    /\ ~Resolves(ShlexSplit(CurrentCmd)[1])
    /\ ev' = Event("cmd_notfound", LabelOrder[li])
    /\ NextCmd
    /\ UNCHANGED << service, running, resolved, config, stop_event, env, result, raising, locals, audio,
                    detector, clock, last_hit, spawned, fires,
                    first_frame >>

\* subprocess.Popen(exec_with_args), its exception logged and swallowed
CmdSpawn ==
    /\ pc = "cmd"
    /\ ~Untokenizable(CurrentCmd)
    /\ ShlexSplit(CurrentCmd) # <<>>
    /\ Resolves(ShlexSplit(CurrentCmd)[1])
    /\ spawned' = Append(spawned, ShlexSplit(CurrentCmd))
    /\ ev' = Event(IF PopenRaises(ShlexSplit(CurrentCmd)[1])
                   THEN "spawn_error" ELSE "spawn", LabelOrder[li])
    /\ NextCmd
    /\ UNCHANGED << service, running, resolved, config, stop_event, env, result, raising, locals, audio,
                    detector, clock, last_hit, fires, first_frame >>

(***************************************************************************)
(* run(), lines 154-166: the finally block.  stop_stream() and close() are *)
(* in one try, terminate() in the next; every exception is swallowed.      *)
(***************************************************************************)
FinallyCalls(isOpen, raisesIn) ==
    (IF ~isOpen THEN <<>>
     ELSE IF raisesIn = "stop_stream" THEN <<"stop_stream">>
     ELSE <<"stop_stream", "close">>)
    \o <<"terminate">>

Finally ==
    /\ pc = "finally"
    /\ \E raisesIn \in {"none", "stop_stream", "close", "terminate"} :
          calls' = FinallyCalls(stream # "none", raisesIn)
    /\ pc' = "done"
    /\ result' = IF raising THEN "raised" ELSE "returned"
    /\ raising' = FALSE
    /\ ev' = Event("finally", "-")
    /\ UNCHANGED << service, running, resolved, config, stop_event, env, locals, pa, stream, detector,
                    loopstate >>

(***************************************************************************)
(* main.py, lines 48-50: the termination handler sets the stop event.      *)
(***************************************************************************)
HandleTermination ==
    /\ ~stop_event
    /\ stop_event' = TRUE
    /\ UNCHANGED << service, running, resolved, config, env, pc, result, raising, locals, audio, detector,
                    loopstate, ev >>

Next ==
    \/ ResolveConfig
    \/ OpenAudioOk
    \/ OpenAudioFail
    \/ ConstructModelOk
    \/ ConstructModelFail
    \/ LoopCheck
    \/ ReadFrameOk
    \/ ReadFrameFail
    \/ PredictOk
    \/ PredictFail
    \/ CheckLabel
    \/ CmdEmpty
    \/ CmdUntokenizable
    \/ CmdNotFound
    \/ CmdSpawn
    \/ Finally
    \/ HandleTermination

Spec == Init /\ [][Next]_vars

(***************************************************************************)
(* The engine's other methods, called from another thread while run() is   *)
(* executing.                                                              *)
(***************************************************************************)
\* engine.py, lines 168-171: stop() logs and clears _running.  It does not touch
\* stop_event, and it returns at once.
Stop ==
    /\ running
    /\ running' = FALSE
    /\ UNCHANGED << service, resolved, config, stop_event, env, pc, result, raising,
                    locals, audio, detector, loopstate, ev >>

\* The configurations handed to reload_config: every value run() reads differs
\* from BaseConfig's.
ReloadConfigs ==
    { [BaseConfig EXCEPT !.sensitivity = 0, !.launch_cooldown_secs = 0, !.period = 2,
                         !.wakewords = [l \in Labels |-> <<>>]] }

\* A reload that also swaps the thresholds of the loop in flight.
ReloadConfigHotSwap ==
    /\ \E c \in ReloadConfigs \ {config} :
          /\ config' = c
          /\ sensitivity' = c.sensitivity
          /\ launch_cooldown_secs' = c.launch_cooldown_secs
    /\ UNCHANGED << service, running, resolved, stop_event, env, pc, result, raising,
                    wakewords, period, audio, detector, loopstate, ev >>

\* engine.py, lines 173-176: reload_config(config) rebinds self.config.
ReloadConfig ==
    /\ \E c \in ReloadConfigs \ {config} : config' = c
    /\ UNCHANGED << service, running, resolved, stop_event, env, pc, result, raising,
                    locals, audio, detector, loopstate, ev >>

\* The runs whose command lists reach every branch of the dispatch.
DispatchRuns ==
    { r \in Runs : r[1] = "free" /\ r[2].wakewords["wake_a"] \in {AllKinds, BadQuote} }

ApiInit ==
    /\ \E r \in DispatchRuns : env = r[1] /\ config = r[2]
    /\ clock \in InitClocks
    /\ EngineCreated
    /\ ServiceDetached

ApiNext ==
    \/ Next
    \/ Stop
    \/ ReloadConfig

ApiSpec == ApiInit /\ [][ApiNext]_vars

(***************************************************************************)
(* main.py: run_service(), the supervisor.  It owns the stop event, the    *)
(* reload event, the engine and its worker thread, and rebinds all of them *)
(* but the reload event on a reload.  The objects are numbered in order of *)
(* construction; gen is the number the names stop_event, engine and worker *)
(* are bound to.  The signal handlers and the thread targets are closures  *)
(* over those names, so they act on the binding current when they run.     *)
(* Each worker thread is followed through run() by the steps the           *)
(* supervisor can tell apart.                                              *)
(***************************************************************************)
MaxSighups == 2

engine_vars ==
    << config, stop_event, env, pc, result, raising, locals, audio, detector,
       loopstate, ev, running, resolved >>

ghosts == << term_seen, unserved, sighups >>

\* worker.is_alive()
Alive(g) == workers[g] \notin {"new", "exited"}

\* The worker's run() has opened its capture stream and not yet closed it.
Holding(g) == workers[g] \in {"loop", "iter", "finally", "raising"}

\* The process is running run_service() with its handlers installed (line 58 on).
Handling == sup \notin {"load", "setup", "returned", "raised"}

\* The interpreter has not left run_service(): daemon threads end with it.
ProcessUp == sup \notin {"returned", "raised"}

\* worker.join(timeout=...) returns when the thread has ended or the timeout has
\* passed.
JoinReturns(hasTimeout, alive) == hasTimeout \/ ~alive

SupInit ==
    /\ once \in BOOLEAN
    /\ sup = "load"
    /\ exit_code = <<>>
    /\ reload_event = FALSE
    /\ gen = 0
    /\ events = <<>>
    /\ engine_running = <<>>
    /\ workers = <<>>
    /\ term_seen = FALSE
    /\ unserved = FALSE
    /\ sighups = 0
    /\ env = "free"
    /\ config = BaseConfig
    /\ clock = 0
    /\ EngineCreated

\* Lines 21-28: the configuration loads.
LoadConfigOk ==
    /\ sup = "load"
    /\ sup' = "setup"
    /\ UNCHANGED << once, exit_code, reload_event, gen, events, engine_running,
                    workers, ghosts, engine_vars >>

\* Lines 29-36: ConfigSchemaError returns 3, any other exception returns 4.
LoadConfigFail ==
    /\ sup = "load"
    /\ sup' = "returned"
    /\ \E code \in {3, 4} : exit_code' = <<code>>
    /\ UNCHANGED << once, reload_event, gen, events, engine_running, workers,
                    ghosts, engine_vars >>

\* Lines 41-58: the events, the engine and the thread object are created and the
\* handlers installed.
Setup ==
    /\ sup = "setup"
    /\ gen' = 1
    /\ events' = << FALSE >>
    /\ engine_running' = << FALSE >>
    /\ workers' = << "new" >>
    /\ reload_event' = FALSE
    /\ sup' = "start"
    /\ UNCHANGED << once, exit_code, ghosts, engine_vars >>

\* Lines 67-73: engine.start() sets _running, worker.start() starts the thread.
StartWorker ==
    /\ sup = "start"
    /\ engine_running' = [engine_running EXCEPT ![gen] = TRUE]
    /\ workers' = [workers EXCEPT ![gen] = "run"]
    /\ sup' = IF once THEN "once" ELSE "join"
    /\ UNCHANGED << once, exit_code, reload_event, gen, events, ghosts, engine_vars >>

\* Lines 83-86: once mode sleeps, sets the stop event and goes on to line 110.
OnceStop ==
    /\ sup = "once"
    /\ events' = [events EXCEPT ![gen] = TRUE]
    /\ sup' = "stop"
    /\ UNCHANGED << once, exit_code, reload_event, gen, engine_running, workers,
                    ghosts, engine_vars >>

\* Line 89: worker.join(timeout=1.0).
Join ==
    /\ sup = "join"
    /\ JoinReturns(TRUE, Alive(gen))
    /\ sup' = "check"
    /\ UNCHANGED << once, exit_code, reload_event, gen, events, engine_running,
                    workers, ghosts, engine_vars >>

\* Lines 90-94: the reload event is set; the current stop event is set and
\* engine.stop() clears _running.
ReloadCancel ==
    /\ sup = "check"
    /\ reload_event
    /\ events' = [events EXCEPT ![gen] = TRUE]
    /\ engine_running' = [engine_running EXCEPT ![gen] = FALSE]
    /\ sup' = "r_join"
    /\ UNCHANGED << once, exit_code, reload_event, gen, workers, ghosts,
                    engine_vars >>

\* A reload that waits for the old worker to end however long that takes.
ReloadJoinUntilExit ==
    /\ sup = "r_join"
    /\ JoinReturns(FALSE, Alive(gen))
    /\ sup' = "r_load"
    /\ UNCHANGED << once, exit_code, reload_event, gen, events, engine_running,
                    workers, ghosts, engine_vars >>

\* Line 95: worker.join(timeout=5.0).
ReloadJoin ==
    /\ sup = "r_join"
    /\ JoinReturns(TRUE, Alive(gen))
    /\ sup' = "r_load"
    /\ UNCHANGED << once, exit_code, reload_event, gen, events, engine_running,
                    workers, ghosts, engine_vars >>

\* Line 98: load_config() returns the new configuration.
ReloadLoadOk ==
    /\ sup = "r_load"
    /\ unserved' = FALSE
    /\ sup' = "r_new"
    /\ UNCHANGED << once, exit_code, reload_event, gen, events, engine_running,
                    workers, term_seen, sighups, engine_vars >>

\* A failed reload handled like the failed load at start-up.
ReloadLoadFailReturns ==
    /\ sup = "r_load"
    /\ sup' = "returned"
    /\ exit_code' = << 4 >>
    /\ UNCHANGED << once, reload_event, gen, events, engine_running, workers,
                    ghosts, engine_vars >>

\* Line 98: load_config() raises (config_loader.py 207-217 re-raises); no try
\* block of run_service() is around it.
ReloadLoadFail ==
    /\ sup = "r_load"
    /\ sup' = "raised"
    /\ UNCHANGED << once, exit_code, reload_event, gen, events, engine_running,
                    workers, ghosts, engine_vars >>

\* Lines 99-103: a new event, engine and thread are bound and started.
ReloadRestart ==
    /\ sup = "r_new"
    /\ gen' = gen + 1
    /\ events' = Append(events, FALSE)
    /\ engine_running' = Append(engine_running, TRUE)
    /\ workers' = Append(workers, "run")
    /\ sup' = "r_clear"
    /\ UNCHANGED << once, exit_code, reload_event, ghosts, engine_vars >>

\* Lines 104-105: reload_event.clear(); continue.
ReloadClear ==
    /\ sup = "r_clear"
    /\ reload_event' = FALSE
    /\ sup' = "join"
    /\ UNCHANGED << once, exit_code, gen, events, engine_running, workers, ghosts,
                    engine_vars >>

\* Lines 107-108: no reload is pending; the loop ends when the worker has.
CheckAlive ==
    /\ sup = "check"
    /\ ~reload_event
    /\ sup' = IF Alive(gen) THEN "join" ELSE "stop"
    /\ UNCHANGED << once, exit_code, reload_event, gen, events, engine_running,
                    workers, ghosts, engine_vars >>

\* Lines 110-117: engine.stop() on the current engine, then return 0.
StopAndReturn ==
    /\ sup = "stop"
    /\ engine_running' = [engine_running EXCEPT ![gen] = FALSE]
    /\ sup' = "returned"
    /\ exit_code' = << 0 >>
    /\ UNCHANGED << once, reload_event, gen, events, workers, ghosts, engine_vars >>

\* Lines 48-50: _handle_termination sets the event the name stop_event is bound
\* to when the handler runs.
Sigterm ==
    /\ Handling
    /\ events' = [events EXCEPT ![gen] = TRUE]
    /\ term_seen' = TRUE
    /\ UNCHANGED << once, sup, exit_code, reload_event, gen, engine_running,
                    workers, unserved, sighups, engine_vars >>

\* Lines 52-54: _handle_sighup sets the reload event.
Sighup ==
    /\ Handling
    /\ sighups < MaxSighups
    /\ sighups' = sighups + 1
    /\ reload_event' = TRUE
    /\ unserved' = TRUE
    /\ UNCHANGED << once, sup, exit_code, gen, events, engine_running, workers,
                    term_seen, engine_vars >>

Supervisor ==
    \/ LoadConfigOk
    \/ LoadConfigFail
    \/ Setup
    \/ StartWorker
    \/ OnceStop
    \/ Join
    \/ ReloadCancel
    \/ ReloadJoin
    \/ ReloadLoadOk
    \/ ReloadLoadFail
    \/ ReloadRestart
    \/ ReloadClear
    \/ CheckAlive
    \/ StopAndReturn

(***************************************************************************)
(* The worker thread of engine g: _engine_thread (main.py 120-126) around  *)
(* engine.run().                                                           *)
(***************************************************************************)
supervisor_vars == << once, sup, exit_code, reload_event, gen, engine_running >>

\* engine.py 29-97: the configuration is read, the stream opened and the
\* Detector constructed.
WorkerOpen(g) ==
    /\ ProcessUp
    /\ workers[g] = "run"
    /\ workers' = [workers EXCEPT ![g] = "loop"]
    /\ UNCHANGED << supervisor_vars, events, ghosts, engine_vars >>

\* engine.py 51-56 and 70-74: the device or the Detector is not available; run()
\* logs and returns.
WorkerOpenFail(g) ==
    /\ ProcessUp
    /\ workers[g] = "run"
    /\ workers' = [workers EXCEPT ![g] = "exited"]
    /\ UNCHANGED << supervisor_vars, events, ghosts, engine_vars >>

\* engine.py 106: the loop tests the engine's own stop event.
WorkerLoopCheck(g) ==
    /\ ProcessUp
    /\ workers[g] = "loop"
    /\ workers' = [workers EXCEPT ![g] = IF events[g] THEN "finally" ELSE "iter"]
    /\ UNCHANGED << supervisor_vars, events, ghosts, engine_vars >>

\* engine.py 107-152: one iteration, its failures included.
WorkerIterate(g) ==
    /\ ProcessUp
    /\ workers[g] = "iter"
    /\ workers' = [workers EXCEPT ![g] = "loop"]
    /\ UNCHANGED << supervisor_vars, events, ghosts, engine_vars >>

\* engine.py 139: shlex.split raises in the iteration.
WorkerRaise(g) ==
    /\ ProcessUp
    /\ workers[g] = "iter"
    /\ workers' = [workers EXCEPT ![g] = "raising"]
    /\ UNCHANGED << supervisor_vars, events, ghosts, engine_vars >>

\* engine.py 154-166: the finally block after the loop has ended; run() returns
\* and the thread ends.
WorkerFinally(g) ==
    /\ ProcessUp
    /\ workers[g] = "finally"
    /\ workers' = [workers EXCEPT ![g] = "exited"]
    /\ UNCHANGED << supervisor_vars, events, ghosts, engine_vars >>

\* engine.py 154-166 with an exception propagating, then main.py 123-126:
\* _engine_thread logs it and sets the stop event it was started with.
WorkerUnhandled(g) ==
    /\ ProcessUp
    /\ workers[g] = "raising"
    /\ workers' = [workers EXCEPT ![g] = "exited"]
    /\ events' = [events EXCEPT ![g] = TRUE]
    /\ UNCHANGED << supervisor_vars, ghosts, engine_vars >>

Worker(g) ==
    \/ WorkerOpen(g)
    \/ WorkerOpenFail(g)
    \/ WorkerLoopCheck(g)
    \/ WorkerIterate(g)
    \/ WorkerRaise(g)
    \/ WorkerFinally(g)
    \/ WorkerUnhandled(g)

SupNext ==
    \/ Supervisor
    \/ Sigterm
    \/ Sighup
    \/ \E g \in 1..gen : WorkerOpen(g)
    \/ \E g \in 1..gen : WorkerOpenFail(g)
    \/ \E g \in 1..gen : WorkerLoopCheck(g)
    \/ \E g \in 1..gen : WorkerIterate(g)
    \/ \E g \in 1..gen : WorkerRaise(g)
    \/ \E g \in 1..gen : WorkerFinally(g)
    \/ \E g \in 1..gen : WorkerUnhandled(g)

SupSpec == SupInit /\ [][SupNext]_vars

\* The main thread and every started thread keep being scheduled, and the calls
\* they make return; signals arrive or not.
FairSupSpec ==
    /\ SupSpec
    /\ WF_vars(Supervisor)
    /\ \A g \in 1..(MaxSighups + 1) : WF_vars(g <= gen /\ Worker(g))

TypeOK ==
    /\ pc \in {"config", "open", "model", "loop", "read", "predict", "label",
               "cmd", "finally", "done"}
    /\ clock \in 0..MaxClock
    /\ result \in {"running", "returned", "raised"}
    /\ fails \in 0..MaxFails

(***************************************************************************)
(* Vocabulary of the properties.                                           *)
(***************************************************************************)
\* This step is the check of label l (one turn of the for loop).
Checks(l) == pc = "label" /\ LabelOrder[li] = l /\ << pc, li >>' # << pc, li >>

\* The check made in this step dispatched its label.
Dispatched(l) == fires'[l] = fires[l] + 1

\* The score the check of this step read is above the threshold.
Above(buf) == Len(buf) > 0 /\ buf[Len(buf)] > sensitivity

\* isEligible of the cooldown tracker: never fired, or the cooldown has elapsed.
IsEligible(l) == fires[l] = 0 \/ clock - last_hit[l] >= launch_cooldown_secs

\* The check of this step decided by the label's own score and timestamp.
DecidedOnOwnState(l) ==
    Dispatched(l) <=>
        (Above(ev'.curr) /\ clock - last_hit[l] >= launch_cooldown_secs)

CmdEvents == {"cmd_empty", "cmd_error", "cmd_notfound", "spawn", "spawn_error"}

\* The dispatch of ev.label has ended, by the end of its list or by an exception.
DispatchOver == ev.kind \in CmdEvents /\ pc # "cmd"

\* The argument lists of the commands of a list whose executable resolves.
Attemptable(cmds) ==
    LET ok(c) == ~Untokenizable(c) /\ ShlexSplit(c) # <<>>
                 /\ Resolves(ShlexSplit(c)[1])
        sel == SelectSeq(cmds, ok)
    IN  [i \in 1..Len(sel) |-> ShlexSplit(sel[i])]

\* Ticks since the first scored frame.
Elapsed == clock - first_frame[1]

(***************************************************************************)
(* C1.  Two successive dispatches of one label are at least                *)
(* launch_cooldown_secs apart on the monotonic clock; a frame above the    *)
(* threshold inside the cooldown of the label's last fire dispatches       *)
(* nothing and leaves the label's timestamp as it was.                     *)
(***************************************************************************)
C1_CooldownSeparatesDispatches ==
    [][\A l \in Labels :
          /\ (Dispatched(l) /\ fires[l] >= 1)
                => last_hit'[l] - last_hit[l] >= launch_cooldown_secs
          /\ (Checks(l) /\ Above(ev'.curr) /\ fires[l] >= 1
                /\ clock - last_hit[l] < launch_cooldown_secs)
                => /\ fires'[l] = fires[l]
                   /\ last_hit'[l] = last_hit[l]
                   /\ pc' # "cmd"]_vars

\* A label that has fired is detected again inside its cooldown and is skipped.
C1_Witness ==
    /\ ev.kind = "cooldown"
    /\ fires[ev.label] >= 1
    /\ clock - last_hit[ev.label] < launch_cooldown_secs

(***************************************************************************)
(* C2.  A label that has never fired is eligible at once: the first frame  *)
(* that scores it above the threshold dispatches it, whatever the clock    *)
(* reads.  (Stated: no above-threshold frame of a never-fired label is     *)
(* skipped for cooldown.)                                                  *)
(***************************************************************************)
C2_NeverFiredIsEligible ==
    ~(ev.kind = "cooldown" /\ fires[ev.label] = 0)

(***************************************************************************)
(* C3.  On every frame and for every tracked label, the label is           *)
(* dispatched iff its score is strictly above the sensitivity and the      *)
(* label is cooldown-eligible (never fired, or the cooldown has elapsed    *)
(* since its last fire); a label without a score is skipped.               *)
(***************************************************************************)
C3_DispatchIffAboveAndEligible ==
    [][\A l \in Labels :
          Checks(l) => (Dispatched(l) <=> (Above(ev'.curr) /\ IsEligible(l)))]_vars

C5_ExactDispatchCount ==
    ( /\ env = "steady"
      /\ pc = "loop"
      /\ first_frame # <<>>
      /\ launch_cooldown_secs > 0
      /\ first_frame[1] >= launch_cooldown_secs )
    => \A l \in Labels : fires[l] = (Elapsed \div launch_cooldown_secs) + 1

(***************************************************************************)
(* C5 amended.  The number of dispatches of a label is at most             *)
(* floor(elapsed / launch_cooldown_secs) + 1, for every frame period and   *)
(* every positive cooldown.                                                *)
(***************************************************************************)
C5_AtMostOncePerCooldown ==
    (first_frame # <<>> /\ launch_cooldown_secs > 0)
    => \A l \in Labels : fires[l] <= (Elapsed \div launch_cooldown_secs) + 1

\* The synthetic Detector has run past one cooldown and the label has fired twice.
C5_Witness ==
    /\ env = "steady"
    /\ pc = "loop"
    /\ first_frame # <<>>
    /\ launch_cooldown_secs > 0
    /\ Elapsed >= launch_cooldown_secs
    /\ fires["wake_a"] = 2
    /\ fires["wake_a"] < Elapsed + 1

(***************************************************************************)
(* C6.  When a label fires, every command of its list whose executable     *)
(* resolves is handed to Popen, in list order, and no other command is;    *)
(* the dispatch ends at the end of the list and the run stays in its loop. *)
(***************************************************************************)
C6_EveryResolvableCommandAttempted ==
    DispatchOver
    => /\ spawned = Attemptable(wakewords[ev.label])
       /\ pc \in {"label", "loop"}

(***************************************************************************)
(* C7.  A failed frame read or a failed scoring call leaves the run in its *)
(* loop, dispatches nothing and changes no cooldown timestamp; the checks  *)
(* of the next scored frame are decided by each label's score and          *)
(* timestamp alone, as without the failures.                               *)
(***************************************************************************)
C7_ReadAndScoreFailuresNonFatal ==
    [][/\ (ev'.kind \in {"read_error", "predict_error"} /\ pc \in {"read", "predict"})
          => /\ pc' = "loop"
             /\ UNCHANGED << last_hit, fires, spawned, clock, locals, audio,
                             result, raising >>
       /\ \A l \in Labels : (Checks(l) /\ fails > 0) => DecidedOnOwnState(l)]_vars

\* A label is dispatched on the frame that follows two failed iterations.
C7_Witness ==
    /\ fails >= 2
    /\ ev.kind = "fire"
    /\ fires[ev.label] >= 1

(***************************************************************************)
(* C8.  With no usable model path, run() constructs no Detector, scores no *)
(* frame and dispatches nothing; it closes the opened stream, terminates   *)
(* the audio handle and returns.                                           *)
(***************************************************************************)
C8_NoPathsNoDetector ==
    ( /\ pc = "done"
      /\ stream = "open"
      /\ ResolvedPaths(config) = <<>> )
    => /\ detector = "none"
       /\ first_frame = <<>>
       /\ \A l \in Labels : fires[l] = 0
       /\ result = "returned"
       /\ calls = <<"close", "terminate">>

(***************************************************************************)
(* C9.  With a required numeric field absent, run() logs and returns       *)
(* normally: it raises nothing, creates no audio handle, constructs no     *)
(* Detector and never enters the loop.                                     *)
(***************************************************************************)
C9_MissingFieldReturns ==
    (pc = "done" /\ config.missing \cap NumericFields # {})
    => /\ result = "returned"
       /\ ~pa
       /\ stream = "none"
       /\ detector = "none"
       /\ first_frame = <<>>

(***************************************************************************)
(* C10.  Whenever run() is left after the audio handle was created, an     *)
(* opened stream has had stop_stream() and then close() called on it and   *)
(* the handle has then had terminate() called on it.                       *)
(***************************************************************************)
C10_StopCloseTerminateOnEveryExit ==
    (pc = "done" /\ pa)
    => calls = IF stream = "open"
               THEN <<"stop_stream", "close", "terminate">>
               ELSE <<"terminate">>


(***************************************************************************)
(* C11.  stop() signals cancellation: once stop() has been called on an    *)
(* engine whose run() is in its loop, the loop observes it at its next     *)
(* test of the loop condition and leaves for the finally block, so run()   *)
(* returns.                                                                *)
(***************************************************************************)
C11_StopEndsTheLoop ==
    [][(~running /\ pc = "loop" /\ pc' # "loop") => pc' = "finally"]_vars

(***************************************************************************)
(* C12.  reload_config during run() replaces the configuration reference   *)
(* only: the step changes nothing else, the loop's sensitivity, cooldown,  *)
(* frame period and wakewords mapping stay those read when run() began,    *)
(* and every check of a label decides by them.                             *)
(***************************************************************************)
LoopPcs == {"loop", "read", "predict", "label", "cmd"}

C12_ReloadLeavesTheRunAlone ==
    /\ [][config' # config =>
            UNCHANGED << locals, last_hit, fires, spawned, pc, li, ci, stop_event,
                         running, audio, detector, clock >>]_vars
    /\ [](pc \in LoopPcs =>
            /\ sensitivity = resolved[1].sensitivity
            /\ launch_cooldown_secs = resolved[1].launch_cooldown_secs
            /\ period = resolved[1].period
            /\ wakewords = resolved[1].wakewords)
    /\ [][\A l \in Labels : Checks(l) =>
            (Dispatched(l) <=>
                /\ Len(ev'.curr) > 0
                /\ Curr(ev'.curr) > resolved[1].sensitivity
                /\ clock - last_hit[l] >= resolved[1].launch_cooldown_secs)]_vars

\* After a reload, a label is skipped as below the sensitivity run() read, on a
\* score above the sensitivity of the configuration now referenced.
C12_Witness ==
    /\ resolved # <<>>
    /\ config # resolved[1]
    /\ ev.kind = "below"
    /\ Curr(ev.curr) > config.sensitivity
    /\ Curr(ev.curr) <= sensitivity

(***************************************************************************)
(* C13.  A termination signal always leads to shutdown: whenever the       *)
(* handler of SIGINT/SIGTERM has run, at whatever point of the supervisor  *)
(* loop or of a reload, run_service() eventually returns.                  *)
(***************************************************************************)
C13_TerminationShutsDown == term_seen ~> (sup \in {"returned", "raised"})

(***************************************************************************)
(* C14.  No reload signal is lost: while a reload signal has been handled  *)
(* that no load of the configuration has followed yet, the reload event is *)
(* still set, so that the supervisor loop will restart the engine with a   *)
(* configuration loaded after that signal.                                 *)
(***************************************************************************)
C14_NoReloadSignalLost == unserved => reload_event

(***************************************************************************)
(* C15.  The reload waits a bounded time only: at the join of the reload   *)
(* the supervisor can go on to load the configuration, and after the load  *)
(* it can start the new engine, whatever the old worker is doing.          *)
(***************************************************************************)
C15_ReloadNeverWaitsForExit ==
    /\ sup = "r_join" => ENABLED ReloadJoin
    /\ sup = "r_new" => ENABLED ReloadRestart

\* Double capture: the old engine's loop still holds its stream and the new
\* engine's run() has opened the device.
C15_Witness ==
    /\ gen > 1
    /\ Holding(gen - 1)
    /\ workers[gen - 1] \in {"loop", "iter"}
    /\ Holding(gen)

(***************************************************************************)
(* C19.  When run_service() has returned, every worker thread it started   *)
(* has left run(), its stream and handle released: no thread is alive.     *)
(***************************************************************************)
C19_ReturnLeavesNoWorker ==
    sup = "returned" => \A g \in 1..gen : ~Alive(g) /\ ~Holding(g)

(***************************************************************************)
(* C20.  A configuration that fails to load during a reload: the step that *)
(* follows the reload's join either loads, or leaves run_service() by an   *)
(* exception, with no exit code; the old engine is cancelled and stays so, *)
(* no engine or thread has been added, and the reload event is still set.  *)
(***************************************************************************)
C20_FailedReloadPropagates ==
    /\ [][(sup = "r_load" /\ sup' # sup) =>
            \/ sup' = "r_new"
            \/ /\ sup' = "raised"
               /\ exit_code' = <<>>
               /\ events'[gen] /\ ~engine_running'[gen]
               /\ UNCHANGED << gen, events, engine_running, workers >>
               /\ reload_event']_vars
    /\ [](sup = "raised" =>
            /\ exit_code = <<>>
            /\ events[gen] /\ ~engine_running[gen]
            /\ reload_event
            /\ Len(workers) = gen)
    /\ [][sup = "raised" => UNCHANGED << sup, gen, events, workers >>]_vars

\* The reload of a second engine failed to load: two engines were constructed,
\* the second is cancelled and no third exists.
C20_Witness ==
    /\ sup = "raised"
    /\ gen = 2
    /\ events[2]
    /\ reload_event

(***************************************************************************)
(* C16.  Cancellation is checked once per iteration.  Once stop_event is   *)
(* set it stays set, no further frame read is started (the one in progress *)
(* may finish), every step of run() moves forward towards its exit and,    *)
(* unless a read is blocking, some step is possible until run() is left,   *)
(* failed reads and scorings included; and a run left this way has closed  *)
(* its stream and terminated its handle.                                   *)
(***************************************************************************)
\* How far run() is along the way  read, predict, labels and their commands,
\* loop test, finally, done.
Rank ==
    CASE pc = "config" -> 0
      [] pc = "open" -> 1
      [] pc = "model" -> 2
      [] pc = "read" -> 3
      [] pc = "predict" -> 4
      [] pc = "label" -> 10 * li
      [] pc = "cmd" -> 10 * li + ci
      [] pc = "loop" -> 100
      [] pc = "finally" -> 101
      [] pc = "done" -> 102

C16_NoIterationAfterCancel ==
    /\ [][stop_event =>
            /\ stop_event'
            /\ pc' = "read" => (pc = "read" /\ ev' = ev /\ fails' = fails)
            /\ Rank' >= Rank
            /\ pc' # pc => Rank' > Rank]_vars
    /\ []((stop_event /\ pc \notin {"read", "done"}) => ENABLED Next)

C16_CancelledRunReleases ==
    (pc = "done" /\ stop_event /\ stream = "open" /\ detector # "none"
        /\ result = "returned")
    => calls = <<"stop_stream", "close", "terminate">>

C16_CancelExitsAndReleases ==
    /\ C16_NoIterationAfterCancel
    /\ []C16_CancelledRunReleases

(***************************************************************************)
(* C17.  The last-fire timestamp of a label is written when the label      *)
(* fires, before any command of that dispatch is issued, and no outcome of *)
(* a command changes it: while the commands are dispatched it already      *)
(* holds the time of this fire, a label whose commands all fail or whose   *)
(* list is empty is skipped within the cooldown like any fired label, and  *)
(* no step lowers a label's timestamp.                                     *)
(***************************************************************************)
C17_TimestampSetBeforeDispatch ==
    /\ [](pc = "cmd" => last_hit[LabelOrder[li]] = clock)
    /\ [][/\ \A l \in Labels : last_hit'[l] >= last_hit[l]
          /\ \A l \in Labels : Dispatched(l) => last_hit'[l] = clock'
          /\ (pc = "cmd" /\ ev'.kind \in CmdEvents) => last_hit' = last_hit
          /\ \A l \in Labels :
                (Checks(l) /\ fires[l] > 0 /\ Above(ev'.curr)
                   /\ clock - last_hit[l] < launch_cooldown_secs)
                => (~Dispatched(l) /\ ev'.kind = "cooldown")]_vars

\* A label whose commands all failed is skipped, above the threshold, within the
\* cooldown of that fire.
C17_Witness ==
    /\ ev.kind = "cooldown"
    /\ Above(ev.curr)
    /\ fires[ev.label] = 1
    /\ wakewords[ev.label] = FailingOnly
    /\ last_hit[ev.label] > InitialLastHit

(***************************************************************************)
(* C18.  A command string that cannot be tokenized is a transient dispatch *)
(* failure: after it the run is still in its loop (at the next command,    *)
(* the next label or the next frame), no exception is propagating and      *)
(* run() has not ended.                                                    *)
(***************************************************************************)
C18_UntokenizableIsTransient ==
    ev.kind = "cmd_error"
    => /\ pc \in {"cmd", "label", "loop"}
       /\ ~raising
       /\ result = "running"

====
